---- MODULE Spec2Model ----
(***************************************************************************)
(* Model of libre_clinica_upload: upload_to_lc (the batch run over the     *)
(* rows of the SPARQL result) and get_lc_ss_oid (check / create / re-check *)
(* of a study subject), src/libre_clinica_request_github.py.               *)
(*                                                                         *)
(* Text is a sequence of code points.  A cell of a data frame row is a     *)
(* record [t, n, s]: t = "str" (text s), t = "int" (integer n),            *)
(* t = "NA" (pd.NA, the missing value of an Int64/Float64 column),         *)
(* t = "nan" (NaN/None, the missing value of a category/object column).    *)
(* The identifier cell of a row is the study subject label.                *)
(***************************************************************************)
EXTENDS Integers, Sequences, FiniteSets, TLC

VARIABLES
    procs,            \* the get_lc_ss_oid chains of processes running side by side
    bindings,         \* results.bindings of the SPARQL response being materialized
    dtypes,           \* dtype of each column of df_sparql
    perform_query,    \* config.perform_query
    df_sparql,        \* the rows returned by get_sparql_dataframe
    pc,               \* position in upload_to_lc / get_lc_ss_oid
    subject_iteration,\* 1-based number of the row being processed
    rerun,            \* get_lc_ss_oid's rerun argument of the running call
    chain,            \* responses received by the running get_lc_ss_oid chain
    ret,              \* the last response received (the code's ret)
    ss_oid,           \* value returned by get_lc_ss_oid for the current row
    subject,          \* subject dict of the last create request
    items,            \* ItemData payload of the last submission
    failed_subjects,  \* the failure log
    uploads,          \* per-row upload outcome written to the log
    calls,            \* every remote request issued so far, in order
    summary,          \* the final totals written to the log
    exitCode,         \* process exit status, -1 while running
    exception,        \* the uncaught exception that ended the run, or "none"
    lc_subjects,      \* remote: labels for which a study subject exists
    lc_visible        \* remote: labels whose OID isStudySubject reports

vars == <<procs, bindings, dtypes, perform_query, df_sparql, pc, subject_iteration, rerun, chain, ret,
          ss_oid, subject, items, failed_subjects, uploads, calls, summary,
          exitCode, exception, lc_subjects, lc_visible>>

-----------------------------------------------------------------------------
(* Bounds *)

MaxRows == 3
MaxLen == 3

-----------------------------------------------------------------------------
(* Configuration and data *)

identifier_colname == "id"
gender_colname == "gender"
item_prefix == "I_"
Columns == <<"id", "gender", "note">>

ascii_range == 127

StrCell(s) == [t |-> "str", n |-> 0, s |-> s]
IntCell(n) == [t |-> "int", n |-> n, s |-> <<>>]
NACell == [t |-> "NA", n |-> 0, s |-> <<>>]
NaNCell == [t |-> "nan", n |-> 0, s |-> <<>>]
NoneCell == [t |-> "none", n |-> 0, s |-> <<>>]
\* A float, held in tenths.
FloatCell(tenths) == [t |-> "float", n |-> tenths, s |-> <<>>]

Row(l, g, v) == [id |-> l, gender |-> g, note |-> v]

Labels == {"S1", "S2"}

\* OID the remote system assigns to the study subject with a label.
OidOf(l) == CASE l = "S1" -> "SS_S1" [] l = "S2" -> "SS_S2"

\* Rows of the batch model: an Int64 gender column and a category note column.
RowPool ==
    { Row("S1", IntCell(1), StrCell(<<233>>)),
      Row("S2", NACell, NaNCell),
      Row("S1", IntCell(2), StrCell(<<65>>)) }

\* The dtypes of the columns of these rows.
BatchDtypes == [id |-> "object", gender |-> "Int64", note |-> "category"]

RECURSIVE SeqsUpTo(_, _)
SeqsUpTo(S, n) ==
    IF n = 0 THEN {<<>>}
    ELSE LET shorter == SeqsUpTo(S, n - 1)
         IN shorter \cup {Append(q, x) : q \in {r \in shorter : Len(r) = n - 1}, x \in S}

DataFrames == SeqsUpTo(RowPool, MaxRows)

-----------------------------------------------------------------------------
(* Payload construction, upload_to_lc lines 250-258 *)

\* unidecode of one character: ASCII is kept, e-acute -> e, sharp s -> ss,
\* U+0080 (no transliteration) -> empty.
Translit(c) ==
    IF c <= 127 THEN <<c>>
    ELSE IF c = 233 THEN <<101>>
    ELSE IF c = 223 THEN <<115, 115>>
    ELSE <<>>

RECURSIVE unidecode(_)
unidecode(s) == IF s = <<>> THEN <<>> ELSE Translit(Head(s)) \o unidecode(Tail(s))

HasNonAsciiWide(s) == \E i \in 1..Len(s) : s[i] > 255

\* any(ord(char) > ascii_range for char in row[name])
HasNonAscii(s) == \E i \in 1..Len(s) : s[i] > ascii_range

RECURSIVE Digits(_)
Digits(n) == IF n < 10 THEN <<48 + n>> ELSE Digits(n \div 10) \o <<48 + (n % 10)>>

\* str() of an integer, as the f-string renders it
IntToText(n) == IF n < 0 THEN <<45>> \o Digits(0 - n) ELSE Digits(n)

\* str() of a float with one decimal, as the f-string renders it
FloatToText(tenths) ==
    IF tenths < 0
    THEN <<45>> \o Digits((0 - tenths) \div 10) \o <<46, 48 + ((0 - tenths) % 10)>>
    ELSE Digits(tenths \div 10) \o <<46, 48 + (tenths % 10)>>

NotMissing_NotNoneOnly(cell) == cell.t # "none"

\* row[name] is not None and pd.notna(row[name])
NotMissing(cell) == cell.t \in {"str", "int", "float"}

\* The text embedded as Value="..." for a cell that is not missing.
ValueOf(cell) ==
    IF cell.t = "str"
    THEN (IF HasNonAscii(cell.s) THEN unidecode(cell.s) ELSE cell.s)
    ELSE IF cell.t = "float" THEN FloatToText(cell.n)
    ELSE IntToText(cell.n)

RECURSIVE ItemsFrom(_, _)
ItemsFrom(row, k) ==
    IF k > Len(Columns) THEN <<>>
    ELSE LET name == Columns[k]
         IN IF name # identifier_colname /\ NotMissing(row[name])
            THEN <<[prefix |-> item_prefix, name |-> name, Value |-> ValueOf(row[name])]>>
                 \o ItemsFrom(row, k + 1)
            ELSE ItemsFrom(row, k + 1)

BuildItems(row) == ItemsFrom(row, 1)

-----------------------------------------------------------------------------
(* Responses *)

NoError == "no_error_element"
ErrorTexts == {"lc_error"}

Resp(op, result, oid, error) == [op |-> op, result |-> result, oid |-> oid, error |-> error]
NoResp == Resp("none", "none", "", NoError)
NoSubject == [label |-> "", gender |-> NaNCell]
NoSummary == [total |-> -1, failed |-> -1]

Call(op) == [op |-> op, rec |-> subject_iteration]

CurRow == df_sparql[subject_iteration]
ss_label == CurRow[identifier_colname]

\* Answers the remote system can give to isStudySubject for a label: an OID it
\* already reported stays reported, a subject that exists may or may not be
\* reported yet, a subject that does not exist is not found.
CheckResponses(l) ==
    {"Raise"} \cup
    (IF l \in lc_visible THEN {"Success"}
     ELSE IF l \in lc_subjects THEN {"Success", "Fail"}
     ELSE {"Fail"})

\* Answers the remote system can give to create: labels are unique in a study.
CreateResponses(l) ==
    {"Raise"} \cup (IF l \in lc_subjects THEN {"Fail"} ELSE {"Success", "Fail"})

ScheduleResponses == {"Success", "Fail", "Raise"}

\* Documents the data endpoint can answer with: a result element that holds
\* "Success" or not, and an error element or none.
SubmitResponses ==
    {Resp("submit", r, "", e) : r \in {"Success", "NoSuccess"}, e \in ErrorTexts \cup {NoError}}

-----------------------------------------------------------------------------
(* get_lc_ss_oid, lines 21-117 *)

AfterCheck_Exclusive(result, rr) ==
    IF result = "Success" THEN "found"
    ELSE IF ~rr /\ (\A k \in 1..Len(calls) : calls[k].op # "create") THEN "create"
    ELSE "not_available"

AfterCheck_CreateAnyway(result, rr) ==
    IF ~rr THEN "create" ELSE IF result = "Success" THEN "found" ELSE "not_available"

AfterCheck_Recreate(result, rr) ==
    IF result = "Success" THEN "found" ELSE "create"

\* The branch taken on the isStudySubject response (lines 81, 86, 115).
AfterCheck(result, rr) ==
    IF result = "Success" THEN "found"
    ELSE IF ~rr THEN "create"
    ELSE "not_available"

AfterCreate_AlwaysRecheck(result) == "recheck"

AfterCreate_NoRecheck(result) == "create_failed"

\* The branch taken on the create response (lines 99, 111).
AfterCreate(result) == IF result = "Success" THEN "recheck" ELSE "create_failed"

\* ss_gender == 1 / ss_gender == 2 is pd.NA for pd.NA, and bool(pd.NA) raises.
GenderRaises(cell) == cell.t = "NA"

\* "m" if ss_gender == 1 else "f" if ss_gender == 2 else ss_gender (line 92)
NormGender(cell) ==
    IF (cell.t = "int" /\ cell.n = 1) \/ (cell.t = "float" /\ cell.n = 10)
    THEN StrCell(<<109>>)
    ELSE IF (cell.t = "int" /\ cell.n = 2) \/ (cell.t = "float" /\ cell.n = 20)
    THEN StrCell(<<102>>)
    ELSE cell

Raised(kind) ==
    /\ pc' = "raised"
    /\ exception' = kind
    /\ exitCode' = 1

\* client.service.isStudySubject and the branch on its result.
Check ==
    /\ pc = "check"
    /\ \E r \in CheckResponses(ss_label) :
          LET resp == Resp("check", r,
                           IF r = "Success" THEN OidOf(ss_label) ELSE "",
                           IF r = "Fail" THEN "lc_error" ELSE NoError)
          IN /\ calls' = Append(calls, Call("check"))
             /\ IF r = "Raise"
                THEN /\ Raised("transport")
                     /\ UNCHANGED <<ret, chain, ss_oid, lc_visible>>
                ELSE /\ ret' = resp
                     /\ chain' = Append(chain, resp)
                     /\ lc_visible' = IF r = "Success" THEN lc_visible \cup {ss_label}
                                                       ELSE lc_visible
                     /\ UNCHANGED <<exception, exitCode>>
                     /\ CASE AfterCheck(r, rerun) = "found" ->
                               ss_oid' = resp.oid /\ pc' = "schedule"
                          [] AfterCheck(r, rerun) = "create" ->
                               pc' = "create" /\ UNCHANGED ss_oid
                          [] OTHER ->
                               ss_oid' = "" /\ pc' = "schedule"
    /\ UNCHANGED <<procs, bindings, dtypes, perform_query, df_sparql, subject_iteration, rerun, subject, items,
                   failed_subjects, uploads, summary, lc_subjects>>

\* The create request, and the recursive call on its success.
Create ==
    /\ pc = "create"
    /\ IF GenderRaises(CurRow[gender_colname])
       THEN /\ Raised("TypeError")
            /\ UNCHANGED <<calls, ret, chain, ss_oid, subject, rerun, lc_subjects>>
       ELSE \E r \in CreateResponses(ss_label) :
              LET resp == Resp("create", r, "", IF r = "Fail" THEN "lc_error" ELSE NoError)
              IN /\ subject' = [label |-> ss_label, gender |-> NormGender(CurRow[gender_colname])]
                 /\ calls' = Append(calls, Call("create"))
                 /\ IF r = "Raise"
                    THEN /\ Raised("transport")
                         /\ UNCHANGED <<ret, chain, ss_oid, rerun, lc_subjects>>
                    ELSE /\ ret' = resp
                         /\ chain' = Append(chain, resp)
                         /\ lc_subjects' = IF r = "Success" THEN lc_subjects \cup {ss_label}
                                                             ELSE lc_subjects
                         /\ UNCHANGED <<exception, exitCode>>
                         /\ IF AfterCreate(r) = "recheck"
                            THEN rerun' = TRUE /\ pc' = "check" /\ UNCHANGED ss_oid
                            ELSE ss_oid' = "" /\ pc' = "schedule" /\ UNCHANGED rerun
    /\ UNCHANGED <<procs, bindings, dtypes, perform_query, df_sparql, subject_iteration, items, failed_subjects,
                   uploads, summary, lc_visible>>

-----------------------------------------------------------------------------
(* upload_to_lc, lines 164-335 *)

\* if not config.perform_query (line 172)
GateClosed(pq) == ~pq

NoData_Never(d) == FALSE

\* if len(df_sparql) == 0 (line 183)
NoData(d) == Len(d) = 0

Interpret_ErrorIgnored(resp) ==
    IF resp.result = "Success" \/ resp.error # NoError THEN "success" ELSE "abort"

Interpret_NoAbort(resp) ==
    IF resp.result = "Success" THEN "success" ELSE "failed"

\* The reading of the submission response (lines 316, 321, 325).
Interpret(resp) ==
    IF resp.result = "Success" THEN "success"
    ELSE IF resp.error # NoError THEN "failed"
    ELSE "abort"

FailureEntry_Oid(label, oid, error) == [subject |-> oid, error |-> error]

\* failed_subjects.append({"subject": ss_label, "error": error[0].text}) (line 323)
FailureEntry(label, oid, error) == [subject |-> label, error |-> error]

Totals_Iteration(d, failed, iteration) == [total |-> iteration, failed |-> Len(failed)]

\* The totals of lines 334-335: len(df_sparql) and len(failed_subjects).
Totals(d, failed, iteration) == [total |-> Len(d), failed |-> Len(failed)]

\* The execution gate: sys.exit(0) when perform_query is off.
Gate ==
    /\ pc = "gate"
    /\ IF GateClosed(perform_query)
       THEN pc' = "exited" /\ exitCode' = 0
       ELSE pc' = "query" /\ UNCHANGED exitCode
    /\ UNCHANGED <<procs, bindings, dtypes, perform_query, df_sparql, subject_iteration, rerun, chain, ret, ss_oid,
                   subject, items, failed_subjects, uploads, calls, summary, exception,
                   lc_subjects, lc_visible>>

\* The SPARQL query and the test for an empty result: sys.exit(1).
Query ==
    /\ pc = "query"
    /\ \E d \in DataFrames :
          /\ df_sparql' = d
          /\ calls' = Append(calls, [op |-> "query", rec |-> 0])
          /\ IF NoData(d)
             THEN pc' = "exited" /\ exitCode' = 1
             ELSE pc' = "loop" /\ UNCHANGED exitCode
    /\ UNCHANGED <<procs, bindings, dtypes, perform_query, subject_iteration, rerun, chain, ret, ss_oid, subject,
                   items, failed_subjects, uploads, summary, exception, lc_subjects,
                   lc_visible>>

\* The head of the for loop and the call of get_lc_ss_oid with rerun=False.
BeginRecord ==
    /\ pc = "loop"
    /\ subject_iteration <= Len(df_sparql)
    /\ pc' = "check"
    /\ rerun' = FALSE
    /\ chain' = <<>>
    /\ UNCHANGED <<procs, bindings, dtypes, perform_query, df_sparql, subject_iteration, ret, ss_oid, subject, items,
                   failed_subjects, uploads, calls, summary, exitCode, exception,
                   lc_subjects, lc_visible>>

AfterSchedule_Resolve(result) == IF result = "Fail" THEN "check" ELSE "submit"

AfterSchedule_SkipOnFail(result) == IF result = "Fail" THEN "loop" ELSE "submit"

\* The stage after the schedule response: a result "Fail" only writes a warning
\* (lines 245-246).
AfterSchedule(result) == "submit"

\* client.service.schedule: a result "Fail" is only logged.
Schedule ==
    /\ pc = "schedule"
    /\ \E r \in ScheduleResponses :
          /\ calls' = Append(calls, Call("schedule"))
          /\ IF r = "Raise"
             THEN Raised("transport") /\ UNCHANGED ret
             ELSE /\ ret' = Resp("schedule", r, "", IF r = "Fail" THEN "lc_error" ELSE NoError)
                  /\ pc' = AfterSchedule(r)
                  /\ UNCHANGED <<exception, exitCode>>
    /\ UNCHANGED <<procs, bindings, dtypes, perform_query, df_sparql, subject_iteration, rerun, chain, ss_oid,
                   subject, items, failed_subjects, uploads, summary, lc_subjects,
                   lc_visible>>

\* The payload, the POST of the import request and the reading of its response.
Submit ==
    /\ pc = "submit"
    /\ items' = BuildItems(CurRow)
    /\ calls' = Append(calls, Call("submit"))
    /\ \/ /\ Raised("transport")
          /\ UNCHANGED <<ret, failed_subjects, uploads, subject_iteration>>
       \/ \E resp \in SubmitResponses :
             /\ ret' = resp
             /\ UNCHANGED exception
             /\ CASE Interpret(resp) = "success" ->
                       /\ uploads' = Append(uploads, [rec |-> subject_iteration, outcome |-> "success"])
                       /\ subject_iteration' = subject_iteration + 1
                       /\ pc' = "loop"
                       /\ UNCHANGED <<failed_subjects, exitCode>>
                  [] Interpret(resp) = "failed" ->
                       /\ failed_subjects' = Append(failed_subjects,
                                                    FailureEntry(ss_label, ss_oid, resp.error))
                       /\ uploads' = Append(uploads, [rec |-> subject_iteration, outcome |-> "failed"])
                       /\ subject_iteration' = subject_iteration + 1
                       /\ pc' = "loop"
                       /\ UNCHANGED exitCode
                  [] OTHER ->
                       /\ pc' = "exited"
                       /\ exitCode' = 1
                       /\ UNCHANGED <<failed_subjects, uploads, subject_iteration>>
    /\ UNCHANGED <<procs, bindings, dtypes, perform_query, df_sparql, rerun, chain, ss_oid, subject, summary,
                   lc_subjects, lc_visible>>

\* After the loop: the totals and the failure log are written to the log.
Summary ==
    /\ pc = "loop"
    /\ subject_iteration > Len(df_sparql)
    /\ summary' = Totals(df_sparql, failed_subjects, subject_iteration)
    /\ pc' = "done"
    /\ exitCode' = 0
    /\ UNCHANGED <<procs, bindings, dtypes, perform_query, df_sparql, subject_iteration, rerun, chain, ret, ss_oid,
                   subject, items, failed_subjects, uploads, calls, exception, lc_subjects,
                   lc_visible>>

-----------------------------------------------------------------------------
(* The batch run *)

Init ==
    /\ procs = <<>>
    /\ bindings = <<>>
    /\ dtypes = BatchDtypes
    /\ perform_query \in BOOLEAN
    /\ df_sparql = <<>>
    /\ pc = "gate"
    /\ subject_iteration = 1
    /\ rerun = FALSE
    /\ chain = <<>>
    /\ ret = NoResp
    /\ ss_oid = ""
    /\ subject = NoSubject
    /\ items = <<>>
    /\ failed_subjects = <<>>
    /\ uploads = <<>>
    /\ calls = <<>>
    /\ summary = NoSummary
    /\ exitCode = -1
    /\ exception = "none"
    /\ lc_subjects \in SUBSET Labels
    /\ lc_visible = lc_subjects

Next == Gate \/ Query \/ BeginRecord \/ Check \/ Create \/ Schedule \/ Submit \/ Summary

Spec == Init /\ [][Next]_vars

-----------------------------------------------------------------------------
(* The payload of one row, for every text of the bounded alphabet *)

PayloadAlphabet == {65, 127, 128, 223, 233}

Texts == SeqsUpTo(PayloadAlphabet, MaxLen)

PayloadRows ==
    { Row("S1", g, v) :
        g \in {IntCell(2), NACell, StrCell(<<233>>)},
        v \in {StrCell(t) : t \in Texts}
              \cup {NaNCell, NoneCell, NACell, IntCell(-12), FloatCell(15)} }

InitPayload ==
    /\ procs = <<>>
    /\ bindings = <<>>
    /\ dtypes = BatchDtypes
    /\ perform_query = TRUE
    /\ df_sparql \in {<<r>> : r \in PayloadRows}
    /\ pc = "payload"
    /\ subject_iteration = 1
    /\ rerun = FALSE
    /\ chain = <<>>
    /\ ret = NoResp
    /\ ss_oid = ""
    /\ subject = NoSubject
    /\ items = <<>>
    /\ failed_subjects = <<>>
    /\ uploads = <<>>
    /\ calls = <<>>
    /\ summary = NoSummary
    /\ exitCode = -1
    /\ exception = "none"
    /\ lc_subjects = {}
    /\ lc_visible = {}

\* Lines 250-258 alone: the ItemData of the current row.
BuildPayload ==
    /\ pc = "payload"
    /\ items' = BuildItems(CurRow)
    /\ pc' = "payload_built"
    /\ UNCHANGED <<procs, bindings, dtypes, perform_query, df_sparql, subject_iteration, rerun, chain, ret, ss_oid,
                   subject, failed_subjects, uploads, calls, summary, exitCode, exception,
                   lc_subjects, lc_visible>>

NextPayload == BuildPayload

SpecPayload == InitPayload /\ [][NextPayload]_vars

-----------------------------------------------------------------------------
(* QueryEngine.get_sparql_dataframe, src/query_engine_libre_clinica_github.py *)
(* A binding is [type, datatype, value]; a variable a row does not bind has  *)
(* type "absent".                                                           *)

MaxBindRows == 2

Binding(type, datatype, value) == [type |-> type, datatype |-> datatype, value |-> value]
AbsentBinding == Binding("absent", "none", <<>>)

literal_variable_types == {"literal", "typed-literal"}
integer_data_types == {"xsd:int", "xsd:integer"}

\* Values of the bindings: "1", "0", "x", "1."
RawValues == {<<49>>, <<48>>, <<120>>, <<49, 46>>}

BindingPool ==
    {AbsentBinding}
    \cup {Binding("uri", "none", v) : v \in RawValues}
    \cup {Binding("literal", d, v) :
            d \in {"none", "xsd:int", "xsd:double", "xsd:string", "xsd:date"}, v \in RawValues}
    \cup {Binding("typed-literal", d, v) : d \in {"xsd:integer", "xsd:string"}, v \in RawValues}

NoteBindings == {AbsentBinding, Binding("uri", "none", <<120>>)}

RawRows == {Row("S1", g, v) : g \in BindingPool, v \in NoteBindings}

RawResults == UNION {[1..n -> RawRows] : n \in 0..MaxBindRows}

IsDigit(c) == c \in 48..57
IsSpace(c) == c \in {9, 10, 13, 32}

RECURSIVE LStrip(_)
LStrip(s) == IF s # <<>> /\ IsSpace(Head(s)) THEN LStrip(Tail(s)) ELSE s

RECURSIVE RStrip(_)
RStrip(s) ==
    IF s # <<>> /\ IsSpace(s[Len(s)]) THEN RStrip(SubSeq(s, 1, Len(s) - 1)) ELSE s

AllDigits(s) == \A k \in 1..Len(s) : IsDigit(s[k])

RECURSIVE DigitsValue(_)
DigitsValue(s) ==
    IF s = <<>> THEN 0 ELSE 10 * DigitsValue(SubSeq(s, 1, Len(s) - 1)) + (s[Len(s)] - 48)

Unsigned(s) == IF s # <<>> /\ s[1] \in {43, 45} THEN Tail(s) ELSE s
SignOf(s) == IF s # <<>> /\ s[1] = 45 THEN -1 ELSE 1

\* int(text): surrounding whitespace, an optional sign, decimal digits; anything
\* else is a ValueError.
ParseInt(text) ==
    LET body == Unsigned(RStrip(LStrip(text)))
    IN IF body # <<>> /\ AllDigits(body)
       THEN [ok |-> TRUE, n |-> SignOf(RStrip(LStrip(text))) * DigitsValue(body)]
       ELSE [ok |-> FALSE, n |-> 0]

DotAt(s) == {k \in 1..Len(s) : s[k] = 46}

\* float(text) for decimal notation with at most one digit after the point,
\* in tenths; anything else is a ValueError.
ParseFloat(text) ==
    LET t == RStrip(LStrip(text))
        body == Unsigned(t)
        dots == DotAt(body)
        dot == IF dots = {} THEN Len(body) + 1 ELSE CHOOSE k \in dots : \A j \in dots : k <= j
        whole == SubSeq(body, 1, dot - 1)
        frac == SubSeq(body, dot + 1, Len(body))
    IN IF /\ Cardinality(dots) <= 1
          /\ AllDigits(whole) /\ AllDigits(frac)
          /\ Len(whole) + Len(frac) > 0
          /\ Len(frac) <= 1
       THEN [ok |-> TRUE, n |-> SignOf(t) * (10 * DigitsValue(whole) + DigitsValue(frac))]
       ELSE [ok |-> FALSE, n |-> 0]

\* row.get(col, {}).get("value") is None
ValueIsNone(b) == b.type = "absent"

convert_ZeroOnFailure(b, cast_to) ==
    IF ~ValueIsNone(b)
    THEN IF cast_to = "int"
         THEN IntCell(ParseInt(b.value).n)
         ELSE FloatCell(ParseFloat(b.value).n)
    ELSE NACell

\* QueryEngine.convert followed by astype("Int64") / astype("Float64"): the
\* parsed number, or the missing value when the value is None or does not parse.
convert(b, cast_to) ==
    IF ~ValueIsNone(b)
    THEN IF cast_to = "int"
         THEN (IF ParseInt(b.value).ok THEN IntCell(ParseInt(b.value).n) ELSE NACell)
         ELSE (IF ParseFloat(b.value).ok THEN FloatCell(ParseFloat(b.value).n) ELSE NACell)
    ELSE NACell

\* The dtype a column gets from the binding of the first row (lines 102-113).
ColumnDtype(first) ==
    IF first.type = "uri" THEN "category"
    ELSE IF first.type \in literal_variable_types
    THEN IF first.datatype \in integer_data_types THEN "Int64"
         ELSE IF first.datatype = "xsd:double" THEN "Float64"
         ELSE IF first.datatype = "xsd:string" THEN "category"
         ELSE "object"
    ELSE "object"

DtypeFrom_OwnRow(rows, r, col) == ColumnDtype(rows[r][col])

\* The dtype applied to the cell of row r: the one of the column, which is
\* inferred from the first row alone.
DtypeFrom(rows, r, col) == ColumnDtype(rows[1][col])

\* The cell a value becomes in a column of a dtype.
TypedCell(b, dtype) ==
    IF dtype = "Int64" THEN convert(b, "int")
    ELSE IF dtype = "Float64" THEN convert(b, "float")
    ELSE IF ValueIsNone(b) THEN (IF dtype = "category" THEN NaNCell ELSE NoneCell)
    ELSE StrCell(b.value)

TypedRow(rows, r) ==
    [id |-> rows[r].id,
     gender |-> TypedCell(rows[r].gender, DtypeFrom(rows, r, "gender")),
     note |-> TypedCell(rows[r].note, DtypeFrom(rows, r, "note"))]

\* The data frame of a result: lines 83-113.
DataFrameOf(rows) == [r \in 1..Len(rows) |-> TypedRow(rows, r)]

DtypesOf(rows) ==
    IF Len(rows) > 0
    THEN [id |-> "object",
          gender |-> ColumnDtype(rows[1].gender),
          note |-> ColumnDtype(rows[1].note)]
    ELSE [id |-> "object", gender |-> "object", note |-> "object"]

InitMaterialize ==
    /\ procs = <<>>
    /\ bindings \in RawResults
    /\ dtypes = [id |-> "object", gender |-> "object", note |-> "object"]
    /\ perform_query = TRUE
    /\ df_sparql = <<>>
    /\ pc = "materialize"
    /\ subject_iteration = 1
    /\ rerun = FALSE
    /\ chain = <<>>
    /\ ret = NoResp
    /\ ss_oid = ""
    /\ subject = NoSubject
    /\ items = <<>>
    /\ failed_subjects = <<>>
    /\ uploads = <<>>
    /\ calls = <<>>
    /\ summary = NoSummary
    /\ exitCode = -1
    /\ exception = "none"
    /\ lc_subjects = {}
    /\ lc_visible = {}

\* get_sparql_dataframe on the response: the typed data frame.
Materialize ==
    /\ pc = "materialize"
    /\ df_sparql' = DataFrameOf(bindings)
    /\ dtypes' = DtypesOf(bindings)
    /\ pc' = "materialized"
    /\ UNCHANGED <<procs, bindings, perform_query, subject_iteration, rerun, chain, ret, ss_oid,
                   subject, items, failed_subjects, uploads, calls, summary, exitCode,
                   exception, lc_subjects, lc_visible>>

NextMaterialize == Materialize

SpecMaterialize == InitMaterialize /\ [][NextMaterialize]_vars

-----------------------------------------------------------------------------
(* Two processes that each run get_lc_ss_oid (lines 21-117) against the same *)
(* study: each request of a chain is one step, and the steps of the two      *)
(* chains interleave.                                                        *)

Procs == {1, 2}

RaceGenders == {IntCell(1), NACell}

\* A process at the call get_lc_ss_oid(ss_label=l, ss_gender=g, rerun=False).
ProcAt(l, g) ==
    [label |-> l, gender |-> g, pc |-> "check", rerun |-> FALSE, chain |-> <<>>,
     ss_oid |-> "", subject |-> NoSubject, exception |-> "none"]

InitRace ==
    /\ procs \in [Procs -> {ProcAt(l, g) : l \in Labels, g \in RaceGenders}]
    /\ bindings = <<>>
    /\ dtypes = BatchDtypes
    /\ perform_query = TRUE
    /\ df_sparql = <<>>
    /\ pc = "race"
    /\ subject_iteration = 1
    /\ rerun = FALSE
    /\ chain = <<>>
    /\ ret = NoResp
    /\ ss_oid = ""
    /\ subject = NoSubject
    /\ items = <<>>
    /\ failed_subjects = <<>>
    /\ uploads = <<>>
    /\ calls = <<>>
    /\ summary = NoSummary
    /\ exitCode = -1
    /\ exception = "none"
    /\ lc_subjects \in SUBSET Labels
    /\ lc_visible = lc_subjects

RaceUnchanged ==
    UNCHANGED <<bindings, dtypes, perform_query, df_sparql, pc, subject_iteration, rerun, chain,
                ret, ss_oid, subject, items, failed_subjects, uploads, summary, exitCode,
                exception>>

\* client.service.isStudySubject of process p and the branch on its result.
RaceCheck(p) ==
    /\ procs[p].pc = "check"
    /\ \E r \in CheckResponses(procs[p].label) :
          LET resp == Resp("check", r,
                           IF r = "Success" THEN OidOf(procs[p].label) ELSE "",
                           IF r = "Fail" THEN "lc_error" ELSE NoError)
          IN /\ calls' = Append(calls, [op |-> "check", rec |-> p])
             /\ IF r = "Raise"
                THEN /\ procs' = [procs EXCEPT ![p].pc = "raised", ![p].exception = "transport"]
                     /\ UNCHANGED lc_visible
                ELSE /\ lc_visible' = IF r = "Success" THEN lc_visible \cup {procs[p].label}
                                                       ELSE lc_visible
                     /\ procs' =
                          [procs EXCEPT
                             ![p].chain = Append(@, resp),
                             ![p].ss_oid = IF AfterCheck(r, procs[p].rerun) = "create"
                                           THEN @ ELSE resp.oid,
                             ![p].pc = IF AfterCheck(r, procs[p].rerun) = "create"
                                       THEN "create" ELSE "returned"]
    /\ UNCHANGED lc_subjects
    /\ RaceUnchanged

\* The create request of process p, and the recursive call on its success.
RaceCreate(p) ==
    /\ procs[p].pc = "create"
    /\ IF GenderRaises(procs[p].gender)
       THEN /\ procs' = [procs EXCEPT ![p].pc = "raised", ![p].exception = "TypeError"]
            /\ UNCHANGED <<calls, lc_subjects>>
       ELSE \E r \in CreateResponses(procs[p].label) :
              LET resp == Resp("create", r, "", IF r = "Fail" THEN "lc_error" ELSE NoError)
                  sent == [label |-> procs[p].label, gender |-> NormGender(procs[p].gender)]
              IN /\ calls' = Append(calls, [op |-> "create", rec |-> p])
                 /\ IF r = "Raise"
                    THEN /\ procs' = [procs EXCEPT ![p].pc = "raised",
                                                   ![p].exception = "transport",
                                                   ![p].subject = sent]
                         /\ UNCHANGED lc_subjects
                    ELSE /\ lc_subjects' = IF r = "Success"
                                           THEN lc_subjects \cup {procs[p].label}
                                           ELSE lc_subjects
                         /\ procs' =
                              [procs EXCEPT
                                 ![p].subject = sent,
                                 ![p].chain = Append(@, resp),
                                 ![p].rerun = IF AfterCreate(r) = "recheck" THEN TRUE ELSE @,
                                 ![p].ss_oid = IF AfterCreate(r) = "recheck" THEN @ ELSE "",
                                 ![p].pc = IF AfterCreate(r) = "recheck"
                                           THEN "check" ELSE "returned"]
    /\ UNCHANGED lc_visible
    /\ RaceUnchanged

NextRace == \E p \in Procs : RaceCheck(p) \/ RaceCreate(p)

SpecRace == InitRace /\ [][NextRace]_vars

-----------------------------------------------------------------------------
(* Properties *)

\* The row the running (or last finished) get_lc_ss_oid chain belongs to.
ChainRec == IF pc \in {"loop", "done"} THEN subject_iteration - 1 ELSE subject_iteration

NumCalls(op, r) == Cardinality({k \in 1..Len(calls) : calls[k].op = op /\ calls[k].rec = r})

IsResolveCall(c) == c.op \in {"check", "create"}

\* The check and create requests issued for row r, in order.
ResolveOps(r) ==
    LET sel == SelectSeq(calls, LAMBDA c : c.rec = r /\ IsResolveCall(c))
    IN [k \in 1..Len(sel) |-> sel[k].op]

LastCall == calls[Len(calls)]

Terminated == pc \in {"done", "exited", "raised"}

\* The last response is a submission response with no success and no error marker.
ProtocolViolation == ret.op = "submit" /\ ret.result # "Success" /\ ret.error = NoError

\* C1: when the first check of a get_lc_ss_oid call (rerun = False) succeeds,
\* the call makes exactly that one check request and no create request, and it
\* returns the OID carried by that check response.
C1_FoundMakesOneCheckNoCreate ==
    (chain # <<>> /\ chain[1].result = "Success") =>
        /\ Len(chain) = 1
        /\ chain[1].op = "check"
        /\ pc \notin {"check", "create"}
        /\ NumCalls("check", ChainRec) = 1
        /\ NumCalls("create", ChainRec) = 0
        /\ ss_oid = chain[1].oid
        /\ ss_oid = OidOf(df_sparql[ChainRec][identifier_colname])

C1_Witness ==
    /\ pc = "schedule"
    /\ chain # <<>>
    /\ chain[1].result = "Success"
    /\ ss_oid = OidOf(ss_label)

\* C2: for a label the first check does not find, the requests of the call are
\* check, create, check in this order, the second check being made only when
\* the create request reports success; the call then returns the OID of the
\* second check if it succeeds and the empty string if it fails.
C2_CheckCreateCheck ==
    /\ Len(chain) <= 3
    /\ \A k \in 1..Len(chain) : chain[k].op = (IF k = 2 THEN "create" ELSE "check")
    /\ Len(chain) >= 2 => chain[1].result = "Fail"
    /\ Len(chain) = 3 => chain[2].result = "Success"
    /\ (Len(chain) >= 2 /\ chain[2].result = "Success" /\ pc \notin {"check", "raised"}) =>
          /\ Len(chain) = 3
          /\ ResolveOps(ChainRec) = <<"check", "create", "check">>
          /\ ss_oid = (IF chain[3].result = "Success" THEN chain[3].oid ELSE "")

C2_Witness ==
    /\ pc = "schedule"
    /\ Len(chain) = 3
    /\ chain[1].result = "Fail"
    /\ chain[2].result = "Success"
    /\ chain[3].result = "Success"
    /\ ss_oid = OidOf(ss_label)

\* A create request is sent in this step.
CreateIssued ==
    /\ Len(calls') = Len(calls) + 1
    /\ calls'[Len(calls')].op = "create"

\* C3 (as stated): once a study subject with the label exists in the study, no
\* further create request is issued for that label.
C3_NoCreateForExistingSubject ==
    [][CreateIssued => ss_label \notin lc_subjects]_vars

\* C3 (amended): a create request is issued for a label only by a call with
\* rerun = False whose own check of that label has just failed, so a call whose
\* check finds the label issues no create request.
C3_CreateOnlyAfterFailedCheck ==
    [][CreateIssued =>
          /\ ~rerun
          /\ Len(chain) = 1
          /\ chain[1].op = "check"
          /\ chain[1].result = "Fail"
          /\ calls[Len(calls)] = [op |-> "check", rec |-> subject_iteration]]_vars

\* A second row with the label of the first, created for the first row, is
\* found by its check and gets no create request.
C3_Witness ==
    /\ pc = "schedule"
    /\ subject_iteration = 2
    /\ df_sparql[1][identifier_colname] = df_sparql[2][identifier_colname]
    /\ NumCalls("create", 1) = 1
    /\ NumCalls("create", 2) = 0
    /\ chain[1].result = "Success"

\* Every submission response so far carried a success or an error marker.
EverySubmissionMarked == ~ProtocolViolation

\* C4 (as stated): when every submission response carries a success or an
\* error marker, the run ends with every row submitted and the summary logged.
C4_NeverAbortsOnRecordFailure ==
    (Terminated /\ perform_query /\ Len(df_sparql) > 0 /\ EverySubmissionMarked) =>
        /\ pc = "done"
        /\ \A r \in 1..Len(df_sparql) : NumCalls("submit", r) = 1
        /\ summary # NoSummary

FailedCount == Cardinality({k \in 1..Len(uploads) : uploads[k].outcome = "failed"})

\* C5: a submission response with neither marker ends the run at once: the
\* process exits, its last request is that submission, no request exists for a
\* later row, and the failure log holds only the failures of earlier rows.
C5_ProtocolViolationEndsRun ==
    ProtocolViolation =>
        /\ pc = "exited"
        /\ exitCode = 1
        /\ ~ENABLED Next
        /\ LastCall = [op |-> "submit", rec |-> subject_iteration]
        /\ \A k \in 1..Len(calls) : calls[k].rec <= subject_iteration
        /\ \A k \in 1..Len(uploads) : uploads[k].rec < subject_iteration
        /\ Len(failed_subjects) = FailedCount

C5_Witness ==
    /\ ProtocolViolation
    /\ pc = "exited"
    /\ subject_iteration < Len(df_sparql)
    /\ Len(failed_subjects) = 1

\* The create request of row r was answered Fail: get_lc_ss_oid made a check and
\* a create for the row and returned, so that the row got its schedule request.
CreateFailed(r) ==
    /\ ResolveOps(r) = <<"check", "create">>
    /\ NumCalls("schedule", r) = 1

Uploaded(r, outcome) == \E k \in 1..Len(uploads) : uploads[k] = [rec |-> r, outcome |-> outcome]

\* Row i is the only row whose create failed and every other row uploaded
\* successfully.
OnlyCreateFailure(i) ==
    /\ CreateFailed(i)
    /\ \A j \in (1..Len(df_sparql)) \ {i} : ~CreateFailed(j) /\ Uploaded(j, "success")

\* C6 (as stated): a run that completes, in which one row ended in a create
\* failure and every other row uploaded successfully, has a failure log of
\* exactly one entry, for that row, and totals N expected / 1 failed.
C6_CreateFailureIsLogged ==
    \A i \in 1..Len(df_sparql) :
        (pc = "done" /\ OnlyCreateFailure(i)) =>
            /\ Len(failed_subjects) = 1
            /\ failed_subjects[1].subject = df_sparql[i][identifier_colname]
            /\ summary = [total |-> Len(df_sparql), failed |-> 1]

\* C6 (amended): when, moreover, the submission of that row (made with the
\* empty OID) is answered with an error marker and no success marker, the run
\* completes with a failure log of exactly one entry, holding the label of that
\* row and the error text of the response, and totals N expected / 1 failed.
C6_CreateFailureLoggedOnErrorResponse ==
    \A i \in 1..Len(df_sparql) :
        (OnlyCreateFailure(i) /\ Uploaded(i, "failed")) =>
            /\ pc \in {"loop", "done"}
            /\ pc = "loop" => ENABLED Summary
            /\ Len(failed_subjects) = 1
            /\ failed_subjects[1].subject = df_sparql[i][identifier_colname]
            /\ failed_subjects[1].error \in ErrorTexts
            /\ pc = "done" => summary = [total |-> Len(df_sparql), failed |-> 1]

C6_Witness ==
    /\ pc = "done"
    /\ Len(df_sparql) = 3
    /\ OnlyCreateFailure(2)
    /\ Uploaded(2, "failed")
    /\ failed_subjects = <<[subject |-> df_sparql[2][identifier_colname], error |-> "lc_error"]>>
    /\ summary = [total |-> 3, failed |-> 1]

\* C7 (as stated): a transport failure raised by the check or the create
\* request of a row does not end the run.
C7_TransportFailureIsCaught ==
    ~(pc = "raised" /\ exception = "transport" /\ IsResolveCall(LastCall))

DestinationCalls == {k \in 1..Len(calls) : calls[k].op # "query"}

\* C8: when the query returns no rows the process exits with a non-zero
\* status and no request is made to the destination system.
C8_NoRowsAbortsBeforeAnyCall ==
    (perform_query /\ pc \notin {"gate", "query"} /\ Len(df_sparql) = 0) =>
        /\ pc = "exited"
        /\ exitCode > 0
        /\ DestinationCalls = {}
        /\ ~ENABLED Next

C8_Witness ==
    /\ pc = "exited"
    /\ perform_query
    /\ df_sparql = <<>>
    /\ calls = <<[op |-> "query", rec |-> 0]>>
    /\ exitCode = 1

\* C9 (as stated): with perform_query off the process exits at once with a
\* non-zero status, before the query is sent and before any row is processed.
C9_GateExitsNonZero ==
    (~perform_query /\ pc # "gate") =>
        /\ pc = "exited"
        /\ exitCode > 0
        /\ calls = <<>>

IsAscii(s) == \A k \in 1..Len(s) : s[k] <= 127

ItemsNamed(name) == {k \in 1..Len(items) : items[k].name = name}

\* C10: in the payload of a row, the value embedded for a text cell that has a
\* character above code point 127 is its transliteration and holds only code
\* points 0-127, and the value embedded for an ASCII-only text cell is the cell.
C10_NonAsciiTransliterated ==
    pc = "payload_built" =>
        \A name \in {"gender", "note"} :
            LET cell == CurRow[name]
            IN cell.t = "str" =>
                 /\ Cardinality(ItemsNamed(name)) = 1
                 /\ \A k \in ItemsNamed(name) :
                       /\ IsAscii(items[k].Value)
                       /\ IsAscii(cell.s) => items[k].Value = cell.s
                       /\ ~IsAscii(cell.s) => items[k].Value = unidecode(cell.s)

C10_Witness ==
    /\ pc = "payload_built"
    /\ CurRow["note"] = StrCell(<<65, 223, 233>>)
    /\ \E k \in 1..Len(items) : items[k].name = "note" /\ items[k].Value = <<65, 115, 115, 101>>

TypedColumns == {"gender", "note"}

\* The cell of row r, column col is the text of its binding, or the missing
\* value of a categorical column.
CategoricalCell(r, col) ==
    df_sparql[r][col] = IF bindings[r][col].type = "absent"
                        THEN NaNCell
                        ELSE StrCell(bindings[r][col].value)

\* C11: a column whose first-row binding is a uri gets the categorical type,
\* and the value of every row in it is categorical (the text of the binding,
\* or the categorical missing value), whatever kind or datatype the bindings
\* of the later rows have.
C11_UriColumnIsCategorical ==
    pc = "materialized" =>
        \A col \in TypedColumns :
            (Len(bindings) > 0 /\ bindings[1][col].type = "uri") =>
                /\ dtypes[col] = "category"
                /\ \A r \in 1..Len(df_sparql) : CategoricalCell(r, col)

C11_Witness ==
    /\ pc = "materialized"
    /\ Len(bindings) = 2
    /\ bindings[1].gender.type = "uri"
    /\ bindings[2].gender = Binding("literal", "xsd:int", <<49>>)
    /\ df_sparql[2].gender = StrCell(<<49>>)

NumericDatatypes == integer_data_types \cup {"xsd:double"}

\* The binding declares its value as an integer or a double.
DeclaredNumeric(b) == b.type \in literal_variable_types /\ b.datatype \in NumericDatatypes

\* A text that holds no digit at all.
NonNumericText(text) == \A k \in 1..Len(text) : ~IsDigit(text[k])

\* The binding has no value, or a value that is no number.
AbsentOrNonNumeric(b) == b.type = "absent" \/ NonNumericText(b.value)

\* C12 as stated: every value declared with an integer or double datatype
\* that is a non-numeric string becomes the missing value, in whatever column
\* it stands.
C12_DeclaredValueCoerced ==
    pc = "materialized" =>
        \A r \in 1..Len(df_sparql) : \A col \in TypedColumns :
            (DeclaredNumeric(bindings[r][col]) /\ NonNumericText(bindings[r][col].value)) =>
                df_sparql[r][col] = NACell

\* C12 (amended): in a column whose first-row binding is declared with an
\* integer or double datatype, every row whose value is absent or a
\* non-numeric string holds the missing value, never zero, and materialization
\* raises no exception.
C12_NumericColumnCoerced ==
    pc = "materialized" =>
        /\ exception = "none"
        /\ \A col \in TypedColumns :
            (Len(bindings) > 0 /\ DeclaredNumeric(bindings[1][col])) =>
                \A r \in 1..Len(df_sparql) :
                    AbsentOrNonNumeric(bindings[r][col]) =>
                        /\ df_sparql[r][col] = NACell
                        /\ df_sparql[r][col] \notin {IntCell(0), FloatCell(0)}

C12_Witness ==
    /\ pc = "materialized"
    /\ Len(bindings) = 2
    /\ bindings[1].gender = Binding("literal", "xsd:double", <<49, 46>>)
    /\ bindings[2].gender = Binding("uri", "none", <<120>>)
    /\ df_sparql[1].gender = FloatCell(10)
    /\ df_sparql[2].gender = NACell
    /\ dtypes.gender = "Float64"

\* C13: when the check of a call with rerun = False fails and the create
\* request is answered with anything but success, the call returns the empty
\* string: it makes no second check, and nothing is raised before the
\* scheduling request of the row.
C13_CreateFailureReturnsEmpty ==
    (Len(chain) >= 2 /\ chain[1].result = "Fail" /\ chain[2].result # "Success") =>
        /\ Len(chain) = 2
        /\ chain[2].op = "create"
        /\ ss_oid = ""
        /\ ~rerun
        /\ ResolveOps(ChainRec) = <<"check", "create">>
        /\ pc \notin {"check", "create"}
        /\ pc = "raised" => LastCall.op \in {"schedule", "submit"}

C13_Witness ==
    /\ pc = "schedule"
    /\ Len(chain) = 2
    /\ chain[1].result = "Fail"
    /\ chain[2].op = "create"
    /\ chain[2].result = "Fail"
    /\ ss_oid = ""
    /\ exception = "none"

\* The longest sequence of requests of one call chain.
LongestChain == <<"check", "create", "check">>

IsPrefix(a, b) == Len(a) <= Len(b) /\ a = SubSeq(b, 1, Len(a))

\* C14: a get_lc_ss_oid call chain ends whatever the remote system answers:
\* the requests made for a row are a prefix of check, create, check (at most
\* two checks, at most one create), each stage of the chain can take its step,
\* the create stage is entered only after a failed check with rerun = False,
\* and a failed check with rerun = True returns the empty string with no
\* create request and no further call.
C14_ChainBounded ==
    /\ \A r \in 1..Len(df_sparql) :
          /\ IsPrefix(ResolveOps(r), LongestChain)
          /\ NumCalls("check", r) <= 2
          /\ NumCalls("create", r) <= 1
    /\ pc \in {"check", "create"} =>
          /\ ENABLED (Check \/ Create)
          /\ Len(ResolveOps(subject_iteration)) < Len(LongestChain)
    /\ pc = "create" =>
          /\ ~rerun
          /\ Len(chain) = 1
          /\ chain[1].op = "check"
          /\ chain[1].result = "Fail"
    /\ (rerun /\ Len(chain) = 3 /\ chain[3].result # "Success") =>
          /\ ss_oid = ""
          /\ pc \notin {"check", "create"}
          /\ ResolveOps(ChainRec) = LongestChain

C14_Witness ==
    /\ pc = "schedule"
    /\ rerun
    /\ Len(chain) = 3
    /\ chain[3].op = "check"
    /\ chain[3].result = "Fail"
    /\ ss_oid = ""
    /\ NumCalls("check", subject_iteration) = 2
    /\ NumCalls("create", subject_iteration) = 1

\* The scheduling request of the row is answered in this step.
ScheduleAnswered == pc = "schedule" /\ ret'.op = "schedule"

\* C15: a schedule response with result "Fail" does not end the handling of
\* the row: the next stage is the data submission of the same row, which is
\* then made, and failed_subjects gets no entry from the scheduling failure;
\* after it an entry is added only for a submission response that holds an
\* error and no success.
C15_ScheduleFailGoesOn ==
    [][/\ (ScheduleAnswered /\ ret'.result = "Fail") =>
            /\ pc' = "submit"
            /\ subject_iteration' = subject_iteration
            /\ failed_subjects' = failed_subjects
            /\ exitCode' = exitCode
            /\ exception' = exception
       /\ (pc = "submit" /\ ret.op = "schedule" /\ ret.result = "Fail") =>
            /\ calls' = Append(calls, Call("submit"))
            /\ failed_subjects' # failed_subjects =>
                  /\ ret'.op = "submit"
                  /\ ret'.result # "Success"
                  /\ ret'.error # NoError]_vars

C15_Witness ==
    /\ pc = "submit"
    /\ ret.op = "schedule"
    /\ ret.result = "Fail"
    /\ LastCall = [op |-> "schedule", rec |-> 2]
    /\ failed_subjects = <<>>
    /\ Len(uploads) = 1
    /\ ENABLED Submit

\* The requests issued for row r, in order.
OpsOf(r) ==
    LET sel == SelectSeq(calls, LAMBDA c : c.rec = r)
    IN [k \in 1..Len(sel) |-> sel[k].op]

\* The requests answered in the running (or last finished) call chain.
ChainOps == [k \in 1..Len(chain) |-> chain[k].op]

\* The rows whose submission response has been read as success or failure.
Processed == 1..Len(uploads)

\* C16: the rows are handled one at a time in the order of the query result.
\* The requests of every processed row are those of one get_lc_ss_oid call
\* chain, then one schedule request, then one submission, also when the OID is
\* the empty string; and a request for a row is issued only when the
\* submission responses of all rows before it have been read.
C16_OneRowAtATime ==
    /\ \A k \in 1..Len(uploads) : uploads[k].rec = k
    /\ \A k \in 1..Len(calls) : \A j \in k..Len(calls) : calls[k].rec <= calls[j].rec
    /\ \A k \in 1..Len(calls) : calls[k].rec <= Len(uploads) + 1
    /\ \A r \in Processed :
          /\ ResolveOps(r) # <<>>
          /\ IsPrefix(ResolveOps(r), LongestChain)
          /\ OpsOf(r) = ResolveOps(r) \o <<"schedule", "submit">>
          /\ NumCalls("schedule", r) = 1
          /\ NumCalls("submit", r) = 1
    /\ (pc \in {"schedule", "submit", "loop", "done"} /\ ChainRec >= 1) =>
          ChainOps = ResolveOps(ChainRec)
    /\ pc \in {"loop", "done"} => Len(uploads) = subject_iteration - 1

C16_Witness ==
    /\ pc = "create"
    /\ subject_iteration = 2
    /\ Processed = {1}
    /\ ss_oid = ""
    /\ OpsOf(1) = <<"check", "create", "schedule", "submit">>
    /\ LastCall = [op |-> "check", rec |-> 2]

\* The submission of the row is answered in this step.
SubmitAnswered == pc = "submit" /\ ret'.op = "submit"

\* The response holds an error marker and no success marker.
ErrorWithoutSuccess(resp) == resp.result # "Success" /\ resp.error # NoError

\* C17: failed_subjects only grows at its end, and only when a submission
\* response is read: a response with an error and no success appends exactly
\* the entry of the label of that row and the error text, and any other
\* response (one that holds a success beside an error included) leaves it as
\* it is; no other step changes it.
C17_FailureLogAppendOnly ==
    [][/\ SubmitAnswered =>
            IF ErrorWithoutSuccess(ret')
            THEN /\ failed_subjects' =
                       Append(failed_subjects, [subject |-> ss_label, error |-> ret'.error])
                 /\ subject_iteration' = subject_iteration + 1
            ELSE failed_subjects' = failed_subjects
       /\ ~SubmitAnswered => failed_subjects' = failed_subjects
       /\ Len(failed_subjects') <= Len(uploads')]_vars

C17_Witness ==
    /\ pc = "loop"
    /\ Len(uploads) = 2
    /\ uploads[1].outcome = "failed"
    /\ uploads[2].outcome = "success"
    /\ ret.op = "submit"
    /\ ret.result = "Success"
    /\ ret.error # NoError
    /\ failed_subjects = <<[subject |-> df_sparql[1][identifier_colname], error |-> "lc_error"]>>

\* The totals have been written to the log.
SummaryReported == summary # NoSummary

\* C18: the totals are written once, in the last step of a run that has read
\* the submission response of every row, and never in a run ended by a
\* response without markers.  The total is the number of rows, the number of
\* failures is the length of failed_subjects, every row has exactly one
\* outcome, success or failure, and the failures are not more than the rows.
C18_SummaryAfterAllRows ==
    /\ SummaryReported <=> pc = "done"
    /\ pc = "done" => ~ENABLED Next
    /\ ProtocolViolation => ~SummaryReported
    /\ SummaryReported =>
          /\ summary.total = Len(df_sparql)
          /\ summary.failed = Len(failed_subjects)
          /\ summary.failed <= summary.total
          /\ Len(uploads) = Len(df_sparql)
          /\ \A r \in 1..Len(df_sparql) :
                /\ uploads[r].rec = r
                /\ uploads[r].outcome \in {"success", "failed"}
                /\ NumCalls("submit", r) = 1
          /\ FailedCount = Len(failed_subjects)

C18_Witness ==
    /\ pc = "done"
    /\ Len(df_sparql) = 3
    /\ summary = [total |-> 3, failed |-> 2]
    /\ uploads[2].outcome = "success"

\* The cell holds None, NaN or pd.NA.
MissingCell(cell) == cell.t \in {"none", "nan", "NA"}

\* The columns of the row that are to get an item, in column order.
ItemColumns(row) ==
    SelectSeq(Columns, LAMBDA c : c # identifier_colname /\ ~MissingCell(row[c]))

\* C19: the items of a row are, in column order, one item for each column
\* other than the identifier column whose cell is not missing, named by the
\* prefix and the column name; the identifier column and a missing cell get no
\* item.
C19_OneItemPerPresentCell ==
    pc = "payload_built" =>
        /\ Len(items) = Len(ItemColumns(CurRow))
        /\ \A k \in 1..Len(items) :
              /\ items[k].name = ItemColumns(CurRow)[k]
              /\ items[k].prefix = item_prefix
        /\ ItemsNamed(identifier_colname) = {}
        /\ \A c \in {Columns[k] : k \in 1..Len(Columns)} :
              Cardinality(ItemsNamed(c)) =
                  (IF c # identifier_colname /\ ~MissingCell(CurRow[c]) THEN 1 ELSE 0)

C19_Witness ==
    /\ pc = "payload_built"
    /\ CurRow[gender_colname] = NACell
    /\ CurRow.note = StrCell(<<>>)
    /\ items = <<[prefix |-> item_prefix, name |-> "note", Value |-> <<>>]>>

\* The destination code of a raw gender: 1 is "m", 2 is "f", any other value is
\* itself.
DestinationGender(cell) ==
    IF cell \in {IntCell(1), FloatCell(10)} THEN StrCell(<<109>>)
    ELSE IF cell \in {IntCell(2), FloatCell(20)} THEN StrCell(<<102>>)
    ELSE cell

\* C20 (as stated): the create stage of a row sends a create request whose
\* gender is the destination code of the raw gender of the row, for every
\* representation of the gender column: integer, text, missing.
C20_GenderNormalizedForEveryType ==
    [][pc = "create" =>
          /\ calls' = Append(calls, Call("create"))
          /\ subject' = [label |-> ss_label,
                         gender |-> DestinationGender(CurRow[gender_colname])]
          /\ exception' # "TypeError"]_vars

\* The check of process p, made with rerun = False, is answered in this step
\* with a result that is not success.
FirstCheckFails(p) ==
    /\ procs[p].pc = "check"
    /\ ~procs[p].rerun
    /\ Len(procs'[p].chain) = Len(procs[p].chain) + 1
    /\ procs'[p].chain[Len(procs'[p].chain)].result # "Success"

\* Process p takes the step of its create stage, with a gender that line 92
\* can evaluate.
CreateStageStep(p) ==
    /\ procs[p].pc = "create"
    /\ procs'[p] # procs[p]
    /\ ~GenderRaises(procs[p].gender)

\* C21: get_lc_ss_oid has no step that keeps a second create request from
\* being sent.  Whatever the other process has done, a process whose check
\* with rerun = False fails enters the create stage, a process in the create
\* stage can take its step, and that step sends a create request for its
\* label.
C21_NothingPreventsSecondCreate ==
    [][\A p \in Procs :
          /\ FirstCheckFails(p) => procs'[p].pc = "create"
          /\ procs[p].pc = "create" => ENABLED RaceCreate(p)
          /\ CreateStageStep(p) =>
                /\ calls' = Append(calls, [op |-> "create", rec |-> p])
                /\ procs'[p].subject.label = procs[p].label]_vars

\* Both processes have seen the check of the same absent label fail, and then
\* both have sent a create request for it.
C21_Witness ==
    /\ procs[1].label = procs[2].label
    /\ Len(calls) = 4
    /\ {calls[1], calls[2]} = {[op |-> "check", rec |-> q] : q \in Procs}
    /\ {calls[3], calls[4]} = {[op |-> "create", rec |-> q] : q \in Procs}
    /\ \A q \in Procs :
          /\ Len(procs[q].chain) = 2
          /\ procs[q].chain[1].result = "Fail"
          /\ procs[q].chain[2].op = "create"
          /\ procs[q].subject.label = procs[q].label
    /\ procs[1].chain[2].result = "Success"
    /\ procs[2].chain[2].result = "Fail"
    /\ lc_subjects = {procs[1].label}
    /\ lc_visible = {}

====
